---- MODULE Spec2Model ----
(***************************************************************************)
(* A model of stan/model.py: Model.sample, the multi-chain sampling        *)
(* orchestrator (submission, polling, retrieval, log classification, Fit   *)
(* construction), with the remote httpstan service and the caller as the   *)
(* environment.                                                            *)
(*                                                                         *)
(* One action is one stretch of sample() between two suspension points     *)
(* (an await on a network request or the sleep of the polling loop).       *)
(* Every response of the service (status, done flag, progress string,      *)
(* result, body) is an input drawn with \E from a small set.               *)
(***************************************************************************)
EXTENDS Integers, Sequences, FiniteSets, TLC

(***************************************************************************)
(* Bounds of the model.                                                    *)
(***************************************************************************)
\* largest chain count the caller passes as num_chains
MaxChains == 2
\* largest iteration number and maximum carried by a progress string
MaxIter == 1
\* longest run of spaces after the severity marker of a logger text
MaxSpaces == 16
\* largest number of parameters in the parameter response of the service
MaxParams == 2

(***************************************************************************)
(* Constants of the program.                                               *)
(***************************************************************************)
\* line 198: "info:" + " " * 15
ContinuationIndent == 15

None == "None"

\* a sample() that does not look for the data key
ReservedKeysMut == <<"chain", "random_seed">>
\* lines 92-94: the keys sample() refuses in kwargs, in the order asserted
ReservedKeys == <<"chain", "data", "random_seed">>

\* HTTP statuses the service answers with (spec section 6)
PostStatuses == {201, 422, 500}
FetchStatuses == {200, 404}
DeleteStatuses == {200, 202, 204, 500}

(***************************************************************************)
(* Text: a Python str is a sequence of one-character strings.              *)
(***************************************************************************)
Spaces(k) == [i \in 1..k |-> " "]

\* str.startswith
StartsWith(text, prefix) ==
    /\ Len(text) >= Len(prefix)
    /\ SubSeq(text, 1, Len(prefix)) = prefix

InfoMarker == <<"i", "n", "f", "o", ":">>
ErrorMarker == <<"e", "r", "r", "o", "r", ":">>
IterationText == <<"I", "t", "e", "r", "a", "t", "i", "o", "n", ":">>
ElapsedText == <<"E", "l", "a", "p", "s", "e", "d", " ", "T", "i", "m", "e", ":">>

\* line 189: msg["topic"] == "logger" and msg["values"][0] != "info:"
is_nonempty_logger_message(msg) ==
    msg.topic = "logger" /\ msg.text # InfoMarker

\* a classifier that does not know the continuation lines
is_iteration_or_elapsed_time_logger_messageMut(msg) ==
    \/ StartsWith(msg.text, InfoMarker \o IterationText)
    \/ StartsWith(msg.text, InfoMarker \o <<" ">> \o ElapsedText)
\* lines 191-199
is_iteration_or_elapsed_time_logger_message(msg) ==
    \/ StartsWith(msg.text, InfoMarker \o IterationText)
    \/ StartsWith(msg.text, InfoMarker \o <<" ">> \o ElapsedText)
    \/ StartsWith(msg.text, InfoMarker \o Spaces(ContinuationIndent))

\* lines 207-211: one line of a chain output; a line without the "logger"
\* marker is not parsed
CollectLine(acc, line) ==
    IF ~line.marker THEN acc
    ELSE IF is_nonempty_logger_message(line)
            /\ ~is_iteration_or_elapsed_time_logger_message(line)
         THEN Append(acc, line)
         ELSE acc

RECURSIVE CollectLines(_, _)
\* line 204: for line in stan_output.splitlines()
CollectLines(acc, lines) ==
    IF lines = <<>> THEN acc
    ELSE CollectLines(CollectLine(acc, Head(lines)), Tail(lines))

RECURSIVE CollectOutputs(_, _)
\* line 203: for stan_output in stan_outputs
CollectOutputs(acc, outputs) ==
    IF outputs = <<>> THEN acc
    ELSE CollectOutputs(CollectLines(acc, Head(outputs).body), Tail(outputs))

\* the lines a chain output is made of
DrawLine == [marker |-> FALSE, topic |-> "", text |-> <<"1", ",", "n", "a", "n">>]
LoggerLine(text) == [marker |-> TRUE, topic |-> "logger", text |-> text]

\* the decimal digit of a chain id
Digit(chain) ==
    IF chain \in 1..9 THEN <<"1", "2", "3", "4", "5", "6", "7", "8", "9">>[chain]
    ELSE "0"

\* the chain outputs the service serves for the fit of a chain in this model:
\* one with only draws and progress lines, one with messages of that chain
FitBodies(chain) ==
    { << DrawLine, LoggerLine(InfoMarker \o IterationText \o <<" ", "1">>) >>,
      << LoggerLine(ErrorMarker \o <<"b", "a", "d", Digit(chain)>>),
         LoggerLine(InfoMarker \o Spaces(ContinuationIndent) \o <<"2">>),
         LoggerLine(ErrorMarker),
         LoggerLine(InfoMarker \o <<"x">>) >> }

\* the texts the classifier is tried on: marker, k spaces, tail
LogTails ==
    { <<>>, <<"x">>, IterationText \o <<" ", "5">>, ElapsedText \o <<" ", "1">> }
LogTexts ==
    { m \o Spaces(k) \o t : m \in {InfoMarker, ErrorMarker}, k \in 0..MaxSpaces,
                            t \in LogTails }
LogLines ==
    {DrawLine}
    \cup { [marker |-> TRUE, topic |-> tp, text |-> tx] :
             tp \in {"logger", "other"}, tx \in LogTexts }

(***************************************************************************)
(* State.                                                                  *)
(***************************************************************************)
VARIABLES
    kwargs,              \* the reserved keys among the caller's options
    num_chains,          \* the caller's num_chains
    random_seed,         \* self.random_seed: None or a seed
    init_given,          \* whether the caller passed init
    initArg,             \* the init list as passed (empty when not passed)
    calls,               \* how many times sample() was called with these arguments
    init,                \* the list object bound to init, popped in place
    payloads,            \* the per-chain request payloads
    resolved,            \* num_warmup .. save_warmup: << >> while unbound, or one record
    pc,                  \* where the call is
    outcome,             \* "running", the exception raised, "Fit" or "None"
    errMsg,              \* what the exception carries
    operations,          \* the local copies of the Operations
    pollIdx,             \* position of the polling sweep in operations
    current_iterations,  \* operation name -> latest iteration
    pb_max,              \* progress_bar.get_max_steps()
    pb_step,             \* the progress the progress bar shows
    starts,              \* totals passed to progress_bar.start (the first two)
    retrIdx,             \* position of the retrieval loop in operations
    stan_outputs,        \* the chain outputs read so far
    nonstandard_logger_messages,
    fit,                 \* the Fit returned: << >> or one record
    posts,               \* create-fit requests issued (their payloads)
    polled,              \* operation names whose state was fetched
    fetched,             \* fit names whose output was requested
    deleted,             \* fit names a DELETE was issued for
    server_ops,          \* service: operation name -> chain id of its request
    served,              \* service: fit name -> the body it served, << >> if none
    lastSeen,            \* chain -> iteration of its latest progress message
    outOfOrder,          \* some operation reported done before an earlier one
    firstMax,            \* maximum of the first progress message, -1 if none
    interrupted,         \* where the call was when the interrupt arrived
    post_statuses,       \* the statuses the create-fit requests were answered with
    justPolled,          \* the operation state fetched by the step just taken
    console,             \* what was done to the console and the progress bar
    bpc,                 \* build(): where the call is
    model_in_cache,      \* build(): the first params request was not a 404
    params_list,         \* build(): the "params" of the parameter response
    model,               \* build(): the Model returned, << >> or one record
    build_outcome,       \* build(): "running", the exception raised, "Model"
    build_requests,      \* build(): the requests issued
    log_line,            \* classifier run: the line under classification
    log_collected        \* classifier run: what was collected from it

callVars == <<kwargs, num_chains, random_seed, init_given, initArg, calls>>
localVars == <<init, payloads, resolved, operations, pollIdx, current_iterations,
               retrIdx, stan_outputs, nonstandard_logger_messages, fit>>
barVars == <<pb_max, pb_step, starts>>
netVars == <<posts, polled, fetched, deleted, server_ops, served>>
ghostVars == <<lastSeen, outOfOrder, firstMax, interrupted, post_statuses>>
logVars == <<log_line, log_collected>>
buildVars == <<bpc, model_in_cache, params_list, model, build_outcome,
               build_requests>>
vars == <<callVars, localVars, barVars, netVars, ghostVars, logVars, buildVars, pc,
          outcome, errMsg, justPolled, console>>

\* an initial-value mapping is the set of its items: the empty dict, or the
\* dict {"x": i} written for chain i
EmptyDict == {}
InitFor(i) == {<<"x", i>>}

\* the init lists a caller passes: one distinct mapping per chain, for any
\* number of chains up to one more than the largest chain count
InitLists ==
    { [i \in 1..n |-> InitFor(i)] : n \in 0..(MaxChains + 1) }

\* the reserved keys a caller may put in the options
OptionKeys == {"chain", "data", "random_seed"}

\* the step fetched the state of operation name and found this kind of progress
\* string in it; NoPoll when the step fetched no operation state
Poll(name, kind) == [name |-> name, progress |-> kind]
NoPoll == Poll(0, "")

\* what an exception carries: where it comes from and of which chain
Msg(src, idx) == [src |-> src, idx |-> idx]
NoMsg == Msg("", 0)

\* the locals of sample(), the console and the service before the call
FreshLocals ==
    /\ payloads = <<>>
    /\ resolved = <<>>
    /\ pc = "start"
    /\ outcome = "running"
    /\ errMsg = NoMsg
    /\ operations = <<>>
    /\ pollIdx = 1
    /\ current_iterations = <<>>
    /\ pb_max = 0
    /\ pb_step = 0
    /\ starts = <<>>
    /\ retrIdx = 1
    /\ stan_outputs = <<>>
    /\ nonstandard_logger_messages = <<>>
    /\ fit = <<>>
    /\ posts = <<>>
    /\ polled = {}
    /\ fetched = <<>>
    /\ deleted = <<>>
    /\ server_ops = <<>>
    /\ served = [c \in 1..MaxChains |-> <<>>]
    /\ lastSeen = [c \in 1..MaxChains |-> 0]
    /\ outOfOrder = FALSE
    /\ firstMax = -1
    /\ interrupted = ""
    /\ post_statuses = <<>>
    /\ justPolled = NoPoll
    /\ console = <<>>

\* before the first call the list object bound to init, when the caller passes
\* one, is the caller's list as written
BeforeCall ==
    /\ init = initArg
    /\ calls = 1
    /\ FreshLocals

\* build() has not been called
BeforeBuild ==
    /\ bpc = "start"
    /\ model_in_cache = FALSE
    /\ params_list = <<>>
    /\ model = <<>>
    /\ build_outcome = "running"
    /\ build_requests = <<>>

\* sample(**kwargs) is entered with any arguments within the bounds
Init ==
    /\ kwargs \in SUBSET OptionKeys
    /\ num_chains \in 0..MaxChains
    /\ random_seed \in {None, "seed"}
    /\ init_given \in BOOLEAN
    /\ initArg \in IF init_given THEN InitLists ELSE {<<>>}
    /\ BeforeCall
    /\ BeforeBuild
    /\ log_line = DrawLine
    /\ log_collected = <<>>

(***************************************************************************)
(* sample(): preconditions and payloads, lines 92-124.                     *)
(***************************************************************************)
\* a sample() that lets every exception through
SampleReturnMut(exc) == exc
\* lines 238-241: what sample() does with an exception that leaves go()
SampleReturn(exc) == IF exc = "KeyboardInterrupt" THEN "None" ELSE exc

\* an exception raised in sample() itself leaves the call
Raise(exc, msg) ==
    /\ pc' = "done"
    /\ outcome' = exc
    /\ errMsg' = msg

\* an exception raised in go() passes the try of line 238
RaiseInGo(exc, msg) ==
    /\ pc' = "done"
    /\ outcome' = SampleReturn(exc)
    /\ errMsg' = IF SampleReturn(exc) = exc THEN msg ELSE NoMsg

\* a default that is not made of empty mappings
DefaultInitMut(n) == [i \in 1..n |-> InitFor(i)]
\* line 98: [dict() for _ in range(num_chains)]
DefaultInit(n) == [i \in 1..n |-> EmptyDict]

Min(S) == CHOOSE x \in S : \A y \in S : x <= y

\* lines 92-100
Validate ==
    /\ pc = "start"
    /\ LET hit == {i \in 1..Len(ReservedKeys) : ReservedKeys[i] \in kwargs}
           lst == IF init_given THEN init ELSE DefaultInit(num_chains)
       IN  IF hit # {}
           THEN /\ Raise("AssertionError", Msg(ReservedKeys[Min(hit)], 0))
                /\ UNCHANGED init
           ELSE /\ init' = lst
                /\ IF Len(lst) # num_chains
                   THEN Raise("ValueError", Msg("init", 0))
                   ELSE /\ pc' = "build"
                        /\ UNCHANGED <<outcome, errMsg>>
    /\ justPolled' = NoPoll
    /\ UNCHANGED <<callVars, console, payloads, resolved, operations, pollIdx,
                   current_iterations, retrIdx, stan_outputs,
                   nonstandard_logger_messages, fit, barVars, netVars, ghostVars,
                   logVars, buildVars>>

\* a payload with the chain id of the first chain
ChainIdMut(chain) == 1
\* line 106: payload["chain"] = chain
ChainId(chain) == chain

\* lines 104-110: the payload of one chain; kwargs cannot set chain or data,
\* which are overwritten, and sets random_seed only when the model has none
Payload(chain, initValue) ==
    [ function |-> "stan::services::sample::hmc_nuts_diag_e_adapt",
      chain |-> ChainId(chain),
      data |-> "self.data",
      init |-> initValue,
      random_seed |-> IF random_seed # None THEN random_seed
                      ELSE IF "random_seed" \in kwargs THEN "kwargs" ELSE None ]

\* the options of the caller that sample() resolves for the Fit
SamplingOptions == {"num_warmup", "num_samples", "num_thin", "save_warmup"}

\* the value the caller gave to an option, and the default of the sampling
\* method for it: arguments.lookup_default(arguments.Method["SAMPLE"], key)
OptionValue(key) == <<"caller", key>>
lookup_default(key) == <<"default", key>>

\* lines 114-123: payload.get(key, default); the payload holds the options of
\* the caller (line 105), and no later key of it is a sampling option
PayloadGet(key) == IF key \in kwargs THEN OptionValue(key) ELSE lookup_default(key)

\* lines 114-123: num_warmup, num_samples, num_thin, save_warmup, bound in the
\* body of the loop
ResolvedQuantities ==
    [ num_warmup |-> PayloadGet("num_warmup"),
      num_samples |-> PayloadGet("num_samples"),
      num_thin |-> PayloadGet("num_thin"),
      save_warmup |-> PayloadGet("save_warmup") ]

RECURSIVE BuildLoop(_, _, _, _)
\* lines 103-124: for chain in range(1, num_chains + 1), with init.pop(0); the
\* four names are bound only if the body runs
BuildLoop(chain, lst, acc, bound) ==
    IF chain > num_chains THEN [payloads |-> acc, init |-> lst, resolved |-> bound]
    ELSE BuildLoop(chain + 1, Tail(lst), Append(acc, Payload(chain, Head(lst))),
                   <<ResolvedQuantities>>)

\* lines 102-124
BuildPayloads ==
    /\ pc = "build"
    /\ LET built == BuildLoop(1, init, <<>>, <<>>)
       IN  /\ payloads' = built.payloads
           /\ init' = built.init
           /\ resolved' = built.resolved
    /\ pc' = "go"
    /\ justPolled' = NoPoll
    /\ UNCHANGED <<callVars, console, operations, pollIdx, current_iterations, retrIdx,
                   stan_outputs, nonstandard_logger_messages, fit, barVars, netVars,
                   ghostVars, logVars, buildVars, outcome, errMsg>>

(***************************************************************************)
(* go(): submission, lines 126-143.                                        *)
(***************************************************************************)
\* a loop test that is never content
AllDoneNever(ops) == FALSE
\* a loop test that is content with the first operation
AllDoneMut(ops) == ops = <<>> \/ ops[1].done
\* line 147: all(operation["done"] for operation in operations)
AllDone(ops) == \A i \in 1..Len(ops) : ops[i].done

\* operation i of ops is done while an earlier one is not
Overtakes(ops, i) == ops[i].done /\ \E j \in 1..(i - 1) : ~ops[j].done

\* where go() continues once the operations ops have been collected
AfterSubmit(ops) ==
    IF Len(ops) < Len(payloads) THEN "submit"
    ELSE IF ~AllDone(ops) THEN "poll"
    ELSE IF ops = <<>> THEN "finish"
    ELSE "retrieve"

\* the result of an Operation: absent, the name of the fit of its chain, or an
\* error payload with no name; the service gives an error payload the status
\* code of a failure, which does not start with 2 (asserted at line 173)
NoResult == [name |-> 0, code |-> 0]
ResultsOf(chain) ==
    { [name |-> chain, code |-> 0], [name |-> 0, code |-> 400] }

\* the states the service reports for the Operation name
OperationStates(name, chain) ==
    { [name |-> name, done |-> FALSE, result |-> NoResult] }
    \cup { [name |-> name, done |-> TRUE, result |-> r] : r \in ResultsOf(chain) }

\* what is done to the console: a line written, or a call of the progress bar
ConsoleLine(text) == [kind |-> "line", text |-> text]
ConsoleBar(method) == [kind |-> method, text |-> <<>>]
SamplingLine == ConsoleLine(<<"S", "a", "m", "p", "l", "i", "n", "g", ".", ".", ".">>)
MessagesLine == ConsoleLine(<<"M", "e", "s", "s", "a", "g", "e", "s">>)
DoneLine == ConsoleLine(<<"D", "o", "n", "e", ".">>)

\* lines 126-135: console, progress bar, the service is up
EnterGo ==
    /\ pc = "go"
    /\ pc' = AfterSubmit(operations)
    /\ console' = Append(console, SamplingLine)
    /\ justPolled' = NoPoll
    /\ UNCHANGED <<callVars, localVars, barVars, netVars, ghostVars, logVars,
                   buildVars, outcome, errMsg>>

\* a submission that takes every answer but 422 for a created fit
IsCreatedMut(status) == status # 422
\* lines 140-142: resp.status == 201
IsCreated(status) == status = 201

\* lines 136-143: one POST to the fits URL and its response
Submit ==
    /\ pc = "submit"
    /\ LET k == Len(operations) + 1
           payload == payloads[k]
       IN  /\ posts' = Append(posts, payload)
           /\ \E status \in PostStatuses :
                /\ post_statuses' = Append(post_statuses, status)
                /\ IF status = 422
                   THEN /\ RaiseInGo("ValueError", Msg("post422", k))
                        /\ UNCHANGED <<operations, server_ops, outOfOrder>>
                   ELSE IF ~IsCreated(status)
                   THEN /\ RaiseInGo("RuntimeError", Msg("post", k))
                        /\ UNCHANGED <<operations, server_ops, outOfOrder>>
                   ELSE \E op \in OperationStates(k, payload.chain) :
                          /\ operations' = Append(operations, op)
                          /\ server_ops' = Append(server_ops, payload.chain)
                          /\ outOfOrder' = (outOfOrder \/ Overtakes(operations', k))
                          /\ pc' = AfterSubmit(operations')
                          /\ UNCHANGED <<outcome, errMsg>>
    /\ justPolled' = NoPoll
    /\ UNCHANGED <<callVars, console, init, payloads, resolved, pollIdx, current_iterations,
                   retrIdx, stan_outputs, nonstandard_logger_messages, fit, barVars,
                   polled, fetched, deleted, served, lastSeen, firstMax, interrupted,
                   logVars, buildVars>>

(***************************************************************************)
(* go(): polling, lines 145-164.                                           *)
(***************************************************************************)
\* operation["metadata"].get("progress"): absent or empty, a text the pattern
\* of line 132 does not match, or "Iteration: <it> / <max>"
ProgressMessages ==
    { [kind |-> "none", it |-> 0, max |-> 0], [kind |-> "text", it |-> 0, max |-> 0] }
    \cup { [kind |-> "iteration", it |-> i, max |-> m] : i, m \in 0..MaxIter }

RECURSIVE SumOver(_, _)
SumOver(f, S) ==
    IF S = {} THEN 0
    ELSE LET x == CHOOSE y \in S : TRUE IN f[x] + SumOver(f, S \ {x})

\* a display that shows the iteration of one chain only
SumValuesMut(f) == IF DOMAIN f = {} THEN 0 ELSE f[Min(DOMAIN f)]
\* line 163: sum(current_iterations.values())
SumValues(f) == SumOver(f, DOMAIN f)

\* line 162: current_iterations[name] = iteration
SetItem(d, key, value) ==
    [k \in DOMAIN d \cup {key} |-> IF k = key THEN value ELSE d[k]]

\* line 160: not progress_bar.get_max_steps(), "has not started"
NotStarted == pb_max = 0

\* a sweep that fetches the operations that are done too
PendingMut(operation) == TRUE
\* lines 149-150: the sweep skips an operation whose local copy is done
Pending(operation) == ~operation.done

\* lines 148-163: the next operation not done is fetched and its progress shown
PollFetch ==
    /\ pc = "poll"
    /\ \E i \in pollIdx..Len(operations) :
         /\ Pending(operations[i])
         /\ \A j \in pollIdx..(i - 1) : ~Pending(operations[j])
         /\ LET name == operations[i].name
            IN  /\ polled' = polled \cup {name}
                /\ \E resp \in OperationStates(name, server_ops[name]),
                      progress \in ProgressMessages :
                     /\ operations' = [operations EXCEPT ![i] = resp]
                     /\ outOfOrder' = (outOfOrder \/ Overtakes(operations', i))
                     /\ pollIdx' = i + 1
                     /\ justPolled' = Poll(name, progress.kind)
                     /\ IF progress.kind = "none"
                        THEN UNCHANGED <<current_iterations, barVars, lastSeen,
                                         firstMax, pc, outcome, errMsg>>
                        ELSE IF progress.kind = "text"
                        THEN /\ RaiseInGo("IndexError", Msg("progress", name))
                             /\ UNCHANGED <<current_iterations, barVars, lastSeen,
                                             firstMax>>
                        ELSE /\ IF NotStarted
                                THEN /\ pb_max' = progress.max * num_chains
                                     /\ starts' = IF Len(starts) < 2
                                                  THEN Append(starts, pb_max')
                                                  ELSE starts
                                ELSE UNCHANGED <<pb_max, starts>>
                             /\ current_iterations' =
                                    SetItem(current_iterations, resp.name, progress.it)
                             /\ pb_step' = SumValues(current_iterations')
                             /\ lastSeen' = [lastSeen EXCEPT ![i] = progress.it]
                             /\ firstMax' = IF firstMax = -1 THEN progress.max
                                             ELSE firstMax
                             /\ UNCHANGED <<pc, outcome, errMsg>>
    /\ UNCHANGED <<callVars, console, init, payloads, resolved, retrIdx, stan_outputs,
                   nonstandard_logger_messages, fit, posts, fetched, deleted,
                   server_ops, served, interrupted, post_statuses, logVars,
                   buildVars>>

\* line 164 and the test of line 147: the sweep is over, sleep, look again
PollSleep ==
    /\ pc = "poll"
    /\ \A j \in pollIdx..Len(operations) : ~Pending(operations[j])
    /\ pollIdx' = 1
    /\ pc' = IF AllDone(operations) THEN "retrieve" ELSE "poll"
    /\ justPolled' = NoPoll
    /\ UNCHANGED <<callVars, console, init, payloads, resolved, operations,
                   current_iterations, retrIdx, stan_outputs,
                   nonstandard_logger_messages, fit, barVars, netVars, ghostVars,
                   logVars, buildVars, outcome, errMsg>>

(***************************************************************************)
(* go(): retrieval and cleanup, lines 169-186.                             *)
(***************************************************************************)
\* a retrieval that takes every result for a fit
ResultIsErrorMut(operation) == FALSE
\* line 172: fit_name is None, operation["result"] is an error
ResultIsError(operation) == operation.result.name = 0

\* line 173: str(operation["result"]["code"]).startswith("2")
CodeStartsWith2(operation) == operation.result.code \in 200..299

\* a retrieval that puts each output in front of the earlier ones
AppendOutputMut(outputs, output) == <<output>> \o outputs
\* line 178: stan_outputs.append(await resp.read())
AppendOutput(outputs, output) == Append(outputs, output)

\* a retrieval that cleans nothing up
UncacheableNever == FALSE
\* a cleanup that deletes the fits of a seeded model too
UncacheableMut == TRUE
\* line 181: the fit is uncacheable (no random seed)
Uncacheable == random_seed = None

\* line 183: resp.status not in {200, 202, 204}
DeleteFailed(status) == status \notin {200, 202, 204}

\* the retrieval loop goes on to the next operation, or ends (line 186)
NextOperation ==
    /\ retrIdx' = retrIdx + 1
    /\ pc' = IF retrIdx < Len(operations) THEN "retrieve" ELSE "finish"

\* lines 171-178: the result of one operation is looked at and its fit read
RetrieveFetch ==
    /\ pc = "retrieve"
    /\ LET operation == operations[retrIdx]
           fit_name == operation.result.name
       IN  IF ResultIsError(operation)
           THEN /\ IF CodeStartsWith2(operation)
                   THEN RaiseInGo("AssertionError", Msg("op", operation.name))
                   ELSE RaiseInGo("RuntimeError", Msg("op", operation.name))
                /\ UNCHANGED <<retrIdx, stan_outputs, fetched, served>>
           ELSE /\ fetched' = Append(fetched, fit_name)
                /\ \E status \in FetchStatuses :
                     IF status # 200
                     THEN /\ RaiseInGo("RuntimeError", Msg("fetch", fit_name))
                          /\ UNCHANGED <<retrIdx, stan_outputs, served>>
                     ELSE \E body \in FitBodies(fit_name) :
                            /\ stan_outputs' =
                                 AppendOutput(stan_outputs,
                                              [fit |-> fit_name, body |-> body])
                            /\ served' = [served EXCEPT ![fit_name] = body]
                            /\ IF Uncacheable
                               THEN pc' = "delete" /\ UNCHANGED retrIdx
                               ELSE NextOperation
                            /\ UNCHANGED <<outcome, errMsg>>
    /\ justPolled' = NoPoll
    /\ UNCHANGED <<callVars, console, init, payloads, resolved, operations, pollIdx,
                   current_iterations, nonstandard_logger_messages, fit, barVars,
                   posts, polled, deleted, server_ops, ghostVars, logVars, buildVars>>

\* lines 181-184: the fit just read is deleted
RetrieveDelete ==
    /\ pc = "delete"
    /\ LET fit_name == operations[retrIdx].result.name
       IN  /\ deleted' = Append(deleted, fit_name)
           /\ \E status \in DeleteStatuses :
                IF DeleteFailed(status)
                THEN /\ RaiseInGo("RuntimeError", Msg("delete", fit_name))
                     /\ UNCHANGED retrIdx
                ELSE /\ NextOperation
                     /\ UNCHANGED <<outcome, errMsg>>
    /\ justPolled' = NoPoll
    /\ UNCHANGED <<callVars, console, init, payloads, resolved, operations, pollIdx,
                   current_iterations, stan_outputs, nonstandard_logger_messages,
                   fit, barVars, posts, polled, fetched, server_ops, served,
                   ghostVars, logVars, buildVars>>

(***************************************************************************)
(* go(): log classification, display and the Fit, lines 186-236.           *)
(***************************************************************************)
RECURSIVE Replace(_, _, _)
\* str.replace(old, new): every occurrence, left to right, not overlapping
Replace(text, old, new) ==
    IF Len(text) < Len(old) THEN text
    ELSE IF StartsWith(text, old)
         THEN new \o Replace(SubSeq(text, Len(old) + 1, Len(text)), old, new)
         ELSE <<Head(text)>> \o Replace(Tail(text), old, new)

\* line 219: msg["values"][0].replace("info:", "  ").replace("error:", "  ")
DisplayText(text) ==
    Replace(Replace(text, InfoMarker, <<" ", " ">>), ErrorMarker, <<" ", " ">>)

\* a display that shows the blank texts too
IsBlankMut(text) == FALSE
\* line 220: not text.strip()
IsBlank(text) == \A i \in 1..Len(text) : text[i] = " "

RECURSIVE DisplayMessages(_)
\* lines 218-221: for msg in nonstandard_logger_messages
DisplayMessages(msgs) ==
    IF msgs = <<>> THEN <<>>
    ELSE LET text == DisplayText(Head(msgs).text)
         IN  (IF IsBlank(text) THEN <<>> ELSE <<ConsoleLine(text)>>)
             \o DisplayMessages(Tail(msgs))

\* a display that finishes the progress bar before it shows the messages
DisplayMut(msgs) ==
    <<ConsoleBar("clear"), ConsoleBar("display"), ConsoleBar("finish")>>
    \o (IF msgs # <<>> THEN <<MessagesLine>> \o DisplayMessages(msgs) ELSE <<>>)
    \o <<DoneLine>>
\* lines 214-224: clear, the messages, display, finish, "Done."
Display(msgs) ==
    <<ConsoleBar("clear")>>
    \o (IF msgs # <<>> THEN <<MessagesLine>> \o DisplayMessages(msgs) ELSE <<>>)
    \o <<ConsoleBar("display"), ConsoleBar("finish"), DoneLine>>

\* lines 186-236; num_warmup .. save_warmup are bound by the loop of line 103
Finish ==
    /\ pc = "finish"
    /\ nonstandard_logger_messages' = CollectOutputs(<<>>, stan_outputs)
    /\ console' = console \o Display(nonstandard_logger_messages')
    /\ IF resolved # <<>>
       THEN /\ fit' = << [ stan_outputs |-> stan_outputs,
                           num_chains |-> num_chains,
                           num_warmup |-> resolved[1].num_warmup,
                           num_samples |-> resolved[1].num_samples,
                           num_thin |-> resolved[1].num_thin,
                           save_warmup |-> resolved[1].save_warmup ] >>
            /\ pc' = "done"
            /\ outcome' = "Fit"
            /\ UNCHANGED errMsg
       ELSE /\ RaiseInGo("NameError", Msg("num_warmup", 0))
            /\ UNCHANGED fit
    /\ justPolled' = NoPoll
    /\ UNCHANGED <<callVars, init, payloads, resolved, operations, pollIdx,
                   current_iterations, retrIdx, stan_outputs, barVars, netVars,
                   ghostVars, logVars, buildVars>>

(***************************************************************************)
(* An external interrupt (KeyboardInterrupt).                              *)
(***************************************************************************)
\* where go() is running, inside the try of line 238
InGo == pc \in {"go", "submit", "poll", "retrieve", "delete", "finish"}

\* the interrupt arrives while asyncio.run(go()) is running
Interrupt ==
    /\ InGo
    /\ RaiseInGo("KeyboardInterrupt", Msg("interrupt", 0))
    /\ interrupted' = pc
    /\ justPolled' = NoPoll
    /\ UNCHANGED <<callVars, console, localVars, barVars, netVars, lastSeen, outOfOrder,
                   firstMax, post_statuses, logVars, buildVars>>

\* the interrupt arrives while the payloads are built, outside the try
InterruptOutside ==
    /\ pc = "build"
    /\ Raise("KeyboardInterrupt", Msg("interrupt", 0))
    /\ interrupted' = pc
    /\ justPolled' = NoPoll
    /\ UNCHANGED <<callVars, console, localVars, barVars, netVars, lastSeen, outOfOrder,
                   firstMax, post_statuses, logVars, buildVars>>

Next ==
    \/ Validate
    \/ BuildPayloads
    \/ EnterGo
    \/ Submit
    \/ PollFetch
    \/ PollSleep
    \/ RetrieveFetch
    \/ RetrieveDelete
    \/ Finish
    \/ Interrupt
    \/ InterruptOutside

Spec == Init /\ [][Next]_vars

(***************************************************************************)
(* sample() with a service that ends every operation.                      *)
(*                                                                         *)
(* go() is the only task of its event loop: it takes its next step as soon *)
(* as the request or the sleep it awaits returns, which is weak fairness   *)
(* of the steps of the program; an interrupt may never come. A service     *)
(* that eventually reports done for an operation it is asked about again   *)
(* and again is strong fairness of the fetch that is answered with done.   *)
(***************************************************************************)
\* the steps sample() takes by itself
ProgramStep ==
    \/ Validate
    \/ BuildPayloads
    \/ EnterGo
    \/ Submit
    \/ PollFetch
    \/ PollSleep
    \/ RetrieveFetch
    \/ RetrieveDelete
    \/ Finish

\* the state of operation i is fetched and the service reports it done
PollReportsDone(i) ==
    /\ PollFetch
    /\ justPolled'.name = i
    /\ operations'[i].done

\* sample() is called with options and a default init that pass the
\* preconditions
LiveInit ==
    /\ kwargs = {}
    /\ num_chains \in 0..MaxChains
    /\ random_seed \in {None, "seed"}
    /\ init_given = FALSE
    /\ initArg = <<>>
    /\ BeforeCall
    /\ BeforeBuild
    /\ log_line = DrawLine
    /\ log_collected = <<>>

SpecLive ==
    /\ LiveInit
    /\ [][Next]_vars
    /\ WF_vars(ProgramStep)
    /\ \A i \in 1..MaxChains : SF_vars(PollReportsDone(i))

(***************************************************************************)
(* sample() called with sampling options.                                  *)
(***************************************************************************)
\* the sets of sampling options a caller passes
OptionSets ==
    { {}, {"num_warmup"}, {"num_samples", "num_thin"}, SamplingOptions }

\* sample() is called with some sampling options, no reserved key and no init
OptionsInit ==
    /\ kwargs \in OptionSets
    /\ num_chains \in 0..MaxChains
    /\ random_seed = None
    /\ init_given = FALSE
    /\ initArg = <<>>
    /\ BeforeCall
    /\ BeforeBuild
    /\ log_line = DrawLine
    /\ log_collected = <<>>

SpecOptions == OptionsInit /\ [][Next]_vars

(***************************************************************************)
(* sample() called a second time with the same arguments: kwargs holds the *)
(* very list object the caller passed as init (line 98 binds it, line 108  *)
(* pops from it), so the second call finds the list as the first left it.  *)
(***************************************************************************)
\* the caller calls sample() again with the same chain count and the same list
CallAgain ==
    /\ pc = "done"
    /\ calls = 1
    /\ calls' = 2
    /\ payloads' = <<>>
    /\ resolved' = <<>>
    /\ pc' = "start"
    /\ outcome' = "running"
    /\ errMsg' = NoMsg
    /\ operations' = <<>>
    /\ pollIdx' = 1
    /\ current_iterations' = <<>>
    /\ pb_max' = 0
    /\ pb_step' = 0
    /\ starts' = <<>>
    /\ retrIdx' = 1
    /\ stan_outputs' = <<>>
    /\ nonstandard_logger_messages' = <<>>
    /\ fit' = <<>>
    /\ posts' = <<>>
    /\ polled' = {}
    /\ fetched' = <<>>
    /\ deleted' = <<>>
    /\ server_ops' = <<>>
    /\ served' = [c \in 1..MaxChains |-> <<>>]
    /\ lastSeen' = [c \in 1..MaxChains |-> 0]
    /\ outOfOrder' = FALSE
    /\ firstMax' = -1
    /\ interrupted' = ""
    /\ post_statuses' = <<>>
    /\ justPolled' = NoPoll
    /\ console' = <<>>
    /\ UNCHANGED <<kwargs, num_chains, random_seed, init_given, initArg, init,
                   logVars, buildVars>>

\* sample() is called with an init list and no reserved key
TwiceInit ==
    /\ kwargs = {}
    /\ num_chains \in 0..MaxChains
    /\ random_seed = None
    /\ init_given = TRUE
    /\ initArg \in InitLists
    /\ BeforeCall
    /\ BeforeBuild
    /\ log_line = DrawLine
    /\ log_collected = <<>>

TwiceNext == Next \/ CallAgain

SpecTwice == TwiceInit /\ [][TwiceNext]_vars

(***************************************************************************)
(* The log classifier on its own: lines 188-211 applied to one line.      *)
(***************************************************************************)
LogInit ==
    /\ kwargs = {}
    /\ num_chains = 0
    /\ random_seed = None
    /\ init_given = FALSE
    /\ initArg = <<>>
    /\ BeforeCall
    /\ BeforeBuild
    /\ log_line \in LogLines
    /\ log_collected = <<>>

\* lines 207-211 on log_line
LogClassify ==
    /\ pc = "start"
    /\ log_collected' = CollectLine(<<>>, log_line)
    /\ pc' = "classified"
    /\ justPolled' = NoPoll
    /\ UNCHANGED <<callVars, console, localVars, barVars, netVars, ghostVars, log_line,
                   buildVars, outcome, errMsg>>

\* the next line of the output
LogNextLine ==
    /\ pc = "classified"
    /\ log_line' \in LogLines
    /\ log_collected' = <<>>
    /\ pc' = "start"
    /\ justPolled' = NoPoll
    /\ UNCHANGED <<callVars, console, localVars, barVars, netVars, ghostVars,
                   buildVars, outcome, errMsg>>

LogNext == LogClassify \/ LogNextLine

SpecLog == LogInit /\ [][LogNext]_vars

(***************************************************************************)
(* build(), lines 373-434: the program is compiled by the service and its  *)
(* parameters are asked for. The conversion of data (lines 392-396) is not *)
(* part of this model: the Model holds the data as given.                  *)
(***************************************************************************)
\* HTTP statuses the service answers build() with
ParamsStatuses == {200, 400, 404}
ModelsStatuses == {201, 400}

\* one entry of "params": a scalar or a vector of two, with the names of its
\* constrained components
Param(name, dims) ==
    [ name |-> name,
      dims |-> dims,
      constrained_names |-> IF dims = <<>> THEN << <<name, 0>> >>
                            ELSE [k \in 1..dims[1] |-> <<name, k>>] ]
Params == { Param(n, d) : n \in {"mu", "tau"}, d \in {<<>>, <<2>>} }

\* the "params" lists the service answers with, the empty one included
ParamLists ==
    UNION { [1..n -> Params] : n \in 0..MaxParams }

\* a request of build() and the status it was answered with
BuildRequest(path, status) == [path |-> path, status |-> status]

\* line 423: len({param["name"] for param in params_list}) == len(params_list)
NamesUnique(lst) ==
    Cardinality({lst[i].name : i \in 1..Len(lst)}) = Len(lst)

\* line 424: zip(*((param["name"], param["dims"]) for param in params_list)):
\* one tuple per position of the pairs, none when there is no pair
Zip(pairs) ==
    IF pairs = <<>> THEN <<>>
    ELSE [j \in 1..2 |-> [i \in 1..Len(pairs) |-> pairs[i][j]]]

RECURSIVE SumTuples(_)
\* line 425: sum((tuple(param["constrained_names"]) for ...), ())
SumTuples(lst) ==
    IF lst = <<>> THEN <<>>
    ELSE Head(lst).constrained_names \o SumTuples(Tail(lst))

\* lines 431-434: what build() does with an exception that leaves go()
BuildReturn(exc) == IF exc = "KeyboardInterrupt" THEN "None" ELSE exc

\* an exception raised in go() of build()
BuildRaise(exc) ==
    /\ bpc' = "done"
    /\ build_outcome' = BuildReturn(exc)

BuildingLine == ConsoleLine(<<"B", "u", "i", "l", "d", "i", "n", "g", ".", ".", ".">>)
TakesTimeLine == ConsoleLine(<<"T", "h", "i", "s", " ", "m", "a", "y">>)
StancLine == ConsoleLine(<<"s", "t", "a", "n", "c">>)
InCacheLine == ConsoleLine(<<"F", "o", "u", "n", "d">>)

\* lines 398-407: is the model in the cache of the service
BuildCacheCheck ==
    /\ bpc = "start"
    /\ \E status \in ParamsStatuses :
         /\ build_requests' = Append(build_requests, BuildRequest("params", status))
         /\ model_in_cache' = (status # 404)
         /\ console' = console \o <<BuildingLine>>
                        \o (IF status # 404 THEN <<>> ELSE <<TakesTimeLine>>)
    /\ bpc' = "compile"
    /\ UNCHANGED <<callVars, localVars, barVars, netVars, ghostVars, logVars,
                   params_list, model, build_outcome, pc, outcome, errMsg,
                   justPolled>>

\* lines 409-417: the program is compiled
BuildCompile ==
    /\ bpc = "compile"
    /\ \E status \in ModelsStatuses, same_name \in BOOLEAN, stanc_warnings \in BOOLEAN :
         /\ build_requests' = Append(build_requests, BuildRequest("models", status))
         /\ IF status # 201
            THEN BuildRaise("RuntimeError") /\ UNCHANGED console
            ELSE IF ~same_name
            THEN BuildRaise("AssertionError") /\ UNCHANGED console
            ELSE /\ bpc' = "params"
                 /\ console' = console \o (IF stanc_warnings THEN <<StancLine>> ELSE <<>>)
                 /\ UNCHANGED build_outcome
    /\ UNCHANGED <<callVars, localVars, barVars, netVars, ghostVars, logVars,
                   model_in_cache, params_list, model, pc, outcome, errMsg,
                   justPolled>>

\* lines 418-429: the parameters are asked for and the Model is made
BuildParams ==
    /\ bpc = "params"
    /\ \E status \in ParamsStatuses :
         /\ build_requests' = Append(build_requests, BuildRequest("params", status))
         /\ IF status # 200
            THEN /\ BuildRaise("RuntimeError")
                 /\ UNCHANGED <<params_list, model, console>>
            ELSE \E lst \in ParamLists :
                   /\ params_list' = lst
                   /\ IF ~NamesUnique(lst)
                      THEN /\ BuildRaise("AssertionError")
                           /\ UNCHANGED <<model, console>>
                      ELSE LET zipped == Zip([i \in 1..Len(lst) |->
                                                <<lst[i].name, lst[i].dims>>])
                           IN  IF Len(zipped) # 2
                               THEN /\ BuildRaise("ValueError")
                                    /\ UNCHANGED <<model, console>>
                               ELSE /\ model' =
                                         << [ param_names |-> zipped[1],
                                              dims |-> zipped[2],
                                              constrained_param_names |-> SumTuples(lst),
                                              random_seed |-> random_seed ] >>
                                    /\ console' =
                                         console
                                         \o (IF model_in_cache THEN <<InCacheLine>> ELSE <<>>)
                                         \o <<DoneLine>>
                                    /\ bpc' = "done"
                                    /\ build_outcome' = "Model"
    /\ UNCHANGED <<callVars, localVars, barVars, netVars, ghostVars, logVars,
                   model_in_cache, pc, outcome, errMsg, justPolled>>

\* the interrupt arrives while asyncio.run(go()) of build() is running
BuildInterrupt ==
    /\ bpc \in {"start", "compile", "params"}
    /\ BuildRaise("KeyboardInterrupt")
    /\ UNCHANGED <<callVars, localVars, barVars, netVars, ghostVars, logVars,
                   model_in_cache, params_list, model, build_requests, console, pc,
                   outcome, errMsg, justPolled>>

\* build(program_code, data, random_seed) is called with or without a seed
BuildInit ==
    /\ kwargs = {}
    /\ num_chains = 0
    /\ random_seed \in {None, "seed"}
    /\ init_given = FALSE
    /\ initArg = <<>>
    /\ BeforeCall
    /\ BeforeBuild
    /\ log_line = DrawLine
    /\ log_collected = <<>>

BuildNext == BuildCacheCheck \/ BuildCompile \/ BuildParams \/ BuildInterrupt

SpecBuild == BuildInit /\ [][BuildNext]_vars

(***************************************************************************)
(* Properties of sample().                                                 *)
(***************************************************************************)
\* the call returned a Fit
Succeeded == pc = "done" /\ outcome = "Fit"

\* C1: in a call that succeeds the result holds one chain output per chain, and
\* the i-th one is the body the service served for the fit of the chain whose
\* request carried chain id i, in whatever order the operations reported done.
C1_OutputsInChainOrder ==
    Succeeded =>
        LET outputs == fit[1].stan_outputs
        IN  /\ Len(outputs) = num_chains
            /\ \A i \in 1..num_chains :
                 /\ posts[i].chain = i
                 /\ outputs[i].fit = i
                 /\ outputs[i].body = served[i]

\* C1 happens: two chains or more, the operation of a later chain reported done
\* before that of an earlier one, and the chains served different outputs.
C1_Witness ==
    /\ Succeeded
    /\ num_chains >= 2
    /\ outOfOrder
    /\ served[1] # served[2]

\* C2: a DELETE is only ever issued for a fit whose output was read with status
\* 200; a call that succeeds has issued exactly one DELETE per chain fit when the
\* model has no seed, and none when it has one.
C2_EphemeralCleanup ==
    /\ \A k \in 1..Len(deleted) : served[deleted[k]] # <<>>
    /\ Succeeded =>
         IF random_seed = None
         THEN /\ Len(deleted) = num_chains
              /\ \A c \in 1..num_chains :
                   Cardinality({k \in 1..Len(deleted) : deleted[k] = c}) = 1
         ELSE deleted = <<>>

\* C2 happens: an unseeded call with two chains or more succeeded.
C2_Witness ==
    /\ Succeeded
    /\ random_seed = None
    /\ num_chains >= 2
    /\ Len(deleted) >= 2

\* operation i finished and its result has no fit name: it is an error payload
FailedOp(i) == operations[i].done /\ operations[i].result.name = 0
FailedOps == {i \in 1..Len(operations) : FailedOp(i)}

\* the call ended after polling had ended with every operation done, neither
\* interrupted nor stopped by a progress string
RetrievalEnded ==
    /\ pc = "done"
    /\ interrupted = ""
    /\ errMsg.src # "progress"
    /\ Len(operations) = num_chains
    /\ \A i \in 1..Len(operations) : operations[i].done

\* C3 as stated: whichever chain's operation failed, such a call raises
\* RuntimeError with the message of that very operation and returns no Fit.
C3_EveryFailureReported ==
    RetrievalEnded =>
        \A i \in FailedOps :
            /\ outcome = "RuntimeError"
            /\ errMsg = Msg("op", operations[i].name)
            /\ fit = <<>>

\* C3 amended: such a call with a failed operation returns no Fit and raises
\* RuntimeError with the message of the failure met first in chain order: that
\* of the failed operation of the lowest chain, or that of the fetch or delete
\* response of a chain before it.
C3_FirstFailureReported ==
    (RetrievalEnded /\ FailedOps # {}) =>
        LET k == Min(FailedOps)
        IN  /\ fit = <<>>
            /\ outcome = "RuntimeError"
            /\ errMsg \in {Msg("op", operations[k].name)}
                          \cup {Msg(s, j) : s \in {"fetch", "delete"}, j \in 1..(k - 1)}
            /\ (errMsg.src = "op") =>
                 /\ Len(stan_outputs) = k - 1
                 /\ \A j \in 1..(k - 1) : stan_outputs[j].fit = j

\* C3 happens: the operations of chains 1 and 2 both failed and the call raised
\* with the message of chain 1.
C3_Witness ==
    /\ RetrievalEnded
    /\ {1, 2} \subseteq FailedOps
    /\ outcome = "RuntimeError"
    /\ errMsg = Msg("op", 1)

\* the options hold a reserved key, or init was passed with a wrong length
PreconditionViolated ==
    \/ kwargs # {}
    \/ init_given /\ Len(initArg) # num_chains

\* no request of any kind was issued
NoRequest == posts = <<>> /\ polled = {} /\ fetched = <<>> /\ deleted = <<>>

\* C4: a call that violates a precondition issues no request and ends with an
\* AssertionError (reserved key) or a ValueError (init count), with no Fit.
C4_PreconditionsBeforeNetwork ==
    PreconditionViolated =>
        /\ NoRequest
        /\ pc \in {"start", "done"}
        /\ pc = "done" =>
             /\ outcome \in {"AssertionError", "ValueError"}
             /\ errMsg.src \in OptionKeys \cup {"init"}
             /\ fit = <<>>

\* C4 happens: a call with a data key in its options was refused.
C4_Witness ==
    /\ pc = "done"
    /\ "data" \in kwargs
    /\ outcome = "AssertionError"

(***************************************************************************)
(* Properties of the log classifier, on SpecLog.                           *)
(***************************************************************************)
RECURSIVE LeadingSpaces(_)
\* the number of spaces a text begins with
LeadingSpaces(text) ==
    IF text # <<>> /\ Head(text) = " " THEN 1 + LeadingSpaces(Tail(text)) ELSE 0

\* the text of a record after its five-character severity marker "info:"
AfterInfo(text) == SubSeq(text, Len(InfoMarker) + 1, Len(text))

\* log_line was classified and is a parsed logger record
ClassifiedRecord == pc = "classified" /\ log_line.marker /\ log_line.topic = "logger"

\* the record has severity info
IsInfoRecord == StartsWith(log_line.text, InfoMarker)

\* the classifier collected log_line as notable
Notable == log_collected = <<log_line>>

\* the record is "info:", k spaces, then text that begins with no space
InfoSpacesText(k) ==
    /\ ClassifiedRecord
    /\ IsInfoRecord
    /\ LeadingSpaces(AfterInfo(log_line.text)) = k
    /\ Len(AfterInfo(log_line.text)) > k

\* C5: a record "info:", k spaces, non-space text is non-notable when k is 15
\* and notable when k is 14 or 16.
C5_ExactlyFifteenSpaces ==
    /\ InfoSpacesText(ContinuationIndent) => ~Notable
    /\ InfoSpacesText(ContinuationIndent - 1) => Notable
    /\ InfoSpacesText(ContinuationIndent + 1) => Notable

\* the three benign texts of an info record: a progress line ("Iteration:"
\* follows the marker), an elapsed-time line (" Elapsed Time:" follows it), a
\* continuation line (15 spaces follow it)
IsProgressLine == StartsWith(AfterInfo(log_line.text), IterationText)
IsElapsedLine ==
    /\ LeadingSpaces(AfterInfo(log_line.text)) = 1
    /\ StartsWith(Tail(AfterInfo(log_line.text)), ElapsedText)
IsContinuationLine == LeadingSpaces(AfterInfo(log_line.text)) >= ContinuationIndent
IsBenignInfo ==
    IsInfoRecord /\ (IsProgressLine \/ IsElapsedLine \/ IsContinuationLine)

C7_StartCalledOnce ==
    /\ Len(starts) <= 1
    /\ firstMax # -1 =>
         /\ starts = <<firstMax * num_chains>>
         /\ pb_max = firstMax * num_chains

\* C8: once a progress message was seen, the progress shown is the sum over the
\* chains of the iteration of the latest progress message of each chain (0 for
\* a chain that sent none).
C8_ProgressIsSumOfLatest ==
    firstMax # -1 => pb_step = SumOver(lastSeen, DOMAIN lastSeen)

\* C8 happens: polling goes on, two chains have reported an iteration above 0.
C8_Witness ==
    /\ pc = "poll"
    /\ lastSeen[1] > 0
    /\ lastSeen[2] > 0
    /\ pb_step >= 2

(***************************************************************************)
(* Properties of the defaults and of the interrupt.                        *)
(***************************************************************************)
\* C9: a call without init that passes the key checks binds init to exactly
\* num_chains empty mappings, is not refused for its init count, and every
\* create-fit request it issues, the k-th for chain k, carries an empty mapping;
\* once submission is over there are num_chains of them.
C9_DefaultInitIsEmptyPerChain ==
    (~init_given /\ kwargs = {} /\ pc # "start") =>
        /\ errMsg.src # "init"
        /\ pc = "build" => init = [i \in 1..num_chains |-> EmptyDict]
        /\ \A k \in 1..Len(posts) : posts[k].chain = k /\ posts[k].init = EmptyDict
        /\ pc \in {"poll", "retrieve", "delete", "finish"} => Len(posts) = num_chains

\* C9 happens: a call without init has issued the requests of two chains or more.
C9_Witness ==
    /\ ~init_given
    /\ num_chains >= 2
    /\ pc = "poll"
    /\ Len(posts) = num_chains

\* C10: an interrupt that arrives while go() runs (submission, polling,
\* retrieval, cleanup, classification) ends the call, which returns None: no
\* Fit and no exception reaches the caller.
C10_InterruptSwallowed ==
    interrupted \in {"go", "submit", "poll", "retrieve", "delete", "finish"} =>
        /\ pc = "done"
        /\ outcome = "None"
        /\ fit = <<>>

\* C10 happens: the interrupt arrived during retrieval, after a chain output had
\* been read.
C10_Witness ==
    /\ interrupted = "retrieve"
    /\ stan_outputs # <<>>
    /\ pc = "done"

(***************************************************************************)
(* Properties of build(), on SpecBuild.                                    *)
(***************************************************************************)
\* the program was compiled and the parameter response, answered with status
\* 200, lists no parameters
BuiltWithoutParams ==
    /\ bpc = "done"
    /\ Len(build_requests) = 3
    /\ build_requests[2].status = 201
    /\ build_requests[3].status = 200
    /\ params_list = <<>>

\* C11: when the program is compiled and the parameter response lists no
\* parameters, build returns a Model whose param_names and dims are both empty
\* sequences, and does not fail.
C11_EmptyParamsGiveEmptyModel ==
    BuiltWithoutParams =>
        /\ build_outcome = "Model"
        /\ model # <<>>
        /\ model[1].param_names = <<>>
        /\ model[1].dims = <<>>

(***************************************************************************)
(* Properties of submission, polling and retrieval.                        *)
(***************************************************************************)
\* C12: the first create-fit response that is not a 201 ends the call: no
\* further create-fit request follows it, 422 raises ValueError with the body of
\* the response and any other status RuntimeError with its message, no operation
\* is polled, no chain output fetched or deleted, and no Fit is returned.
C12_SubmissionFailureAborts ==
    \A k \in 1..Len(post_statuses) :
        post_statuses[k] # 201 =>
            /\ Len(post_statuses) = k
            /\ Len(posts) = k
            /\ Len(operations) = k - 1
            /\ pc = "done"
            /\ IF post_statuses[k] = 422
               THEN outcome = "ValueError" /\ errMsg = Msg("post422", k)
               ELSE outcome = "RuntimeError" /\ errMsg = Msg("post", k)
            /\ polled = {}
            /\ fetched = <<>>
            /\ deleted = <<>>
            /\ fit = <<>>

\* C12 happens: the request of chain 1 was accepted and that of chain 2 was
\* refused with 422.
C12_Witness ==
    /\ num_chains = 2
    /\ post_statuses = <<201, 422>>
    /\ outcome = "ValueError"

\* C13: the create-fit requests are issued one after another, the k-th with
\* chain id k, each only once the one before it was answered; the k-th
\* operation collected is the one the service created for the k-th request; and
\* an operation is polled only once all num_chains requests have been answered
\* with 201.
C13_SequentialSubmission ==
    /\ Len(posts) <= num_chains
    /\ Len(posts) = Len(post_statuses)
    /\ Len(operations) <= Len(posts)
    /\ Len(posts) <= Len(operations) + 1
    /\ \A k \in 1..Len(posts) : posts[k].chain = k
    /\ \A k \in 1..Len(operations) :
         /\ post_statuses[k] = 201
         /\ server_ops[operations[k].name] = posts[k].chain
    /\ (polled # {} \/ pc \in {"poll", "retrieve", "delete", "finish"} \/ Succeeded) =>
         /\ Len(operations) = num_chains
         /\ Len(posts) = num_chains

\* C13 happens: two requests were answered with 201 and polling has begun.
C13_Witness ==
    /\ num_chains = 2
    /\ post_statuses = <<201, 201>>
    /\ polled # {}

\* C14: in every step, an operation whose state is fetched has a local copy
\* that is not done; a local copy that is done stays as it is; and a local copy
\* that changes is that of the operation the step fetched.
C14_DoneIsFinal ==
    [][\A i \in 1..Len(operations) :
          /\ justPolled'.name = operations[i].name => ~operations[i].done
          /\ operations[i].done => operations'[i] = operations[i]
          /\ operations'[i] # operations[i] => justPolled'.name = operations[i].name]_vars

\* C14 happens: operation 1 was fetched and is done, and the step just taken
\* fetched operation 2.
C14_Witness ==
    /\ pc = "poll"
    /\ operations[1].done
    /\ justPolled.name = 2
    /\ 1 \in polled

\* every operation was collected and every local copy is done
EveryOperationDone ==
    /\ Len(operations) = num_chains
    /\ \A i \in 1..Len(operations) : operations[i].done

\* C15: retrieval is entered, a chain output fetched, a fit deleted or a Fit
\* returned only when every local copy is done; and a step taken in the polling
\* loop that leaves some local copy not done stays in the loop, unless the call
\* ends there with no result (an interrupt, or an exception of the loop body).
C15_PollUntilAllDone ==
    /\ []((\/ pc \in {"retrieve", "delete", "finish"}
           \/ fetched # <<>>
           \/ deleted # <<>>
           \/ fit # <<>>) => EveryOperationDone)
    /\ [][(pc = "poll" /\ \E i \in 1..Len(operations') : ~operations'[i].done) =>
            \/ pc' = "poll"
            \/ pc' = "done" /\ outcome' \in {"None", "IndexError"} /\ fit' = <<>>]_vars

\* C15 happens: a sweep over two operations has ended with operation 1 done and
\* operation 2 not done, and the loop starts another one.
C15_Witness ==
    /\ pc = "poll"
    /\ pollIdx = 1
    /\ polled = {1, 2}
    /\ operations[1].done
    /\ ~operations[2].done

\* C17: a fetch whose operation carries no progress string, or one the pattern
\* does not match, leaves the recorded iterations and the progress shown as
\* they are and does not end the call; the recorded iterations change only on
\* a fetch whose progress string matches.
C17_OnlyMatchingProgressCounts ==
    [][/\ (justPolled'.name # 0 /\ justPolled'.progress \in {"none", "text"}) =>
            /\ current_iterations' = current_iterations
            /\ pb_step' = pb_step
            /\ pb_max' = pb_max
            /\ outcome' = "running"
       /\ current_iterations' # current_iterations =>
            justPolled'.progress = "iteration"]_vars

\* retrieval failed at chain k: the result of its operation is an error, or the
\* fetch or the delete of its fit was answered with a failure
RetrievalFailedAt(k) ==
    /\ pc = "done"
    /\ outcome = "RuntimeError"
    /\ errMsg \in {Msg("op", k), Msg("fetch", k), Msg("delete", k)}

\* C20: when retrieval fails at chain k, the outputs of chains 1..k-1 have been
\* fetched once each, in chain order, and deleted once each, in chain order, if
\* the model has no seed (never if it has one); of chain k there is at most the
\* fetch, and the delete, that failed; and nothing was fetched or deleted for a
\* chain after k.
C20_RetrievalStopsAtFailure ==
    \A k \in 1..num_chains :
        RetrievalFailedAt(k) =>
            LET before == [j \in 1..(k - 1) |-> j]
                upto == [j \in 1..k |-> j]
                cleaned(chains) == IF random_seed = None THEN chains ELSE <<>>
            IN  /\ errMsg.src = "op" =>
                     fetched = before /\ deleted = cleaned(before)
                /\ errMsg.src = "fetch" =>
                     fetched = upto /\ deleted = cleaned(before)
                /\ errMsg.src = "delete" =>
                     fetched = upto /\ deleted = upto /\ random_seed = None

\* C20 happens: in an unseeded call with two chains the output of chain 1 was
\* fetched and deleted, the result of chain 2 is an error, and the call failed
\* there.
C20_Witness ==
    /\ num_chains = 2
    /\ random_seed = None
    /\ RetrievalFailedAt(2)
    /\ errMsg.src = "op"
    /\ fetched = <<1>>
    /\ deleted = <<1>>

(***************************************************************************)
(* Properties of the display of the messages.                              *)
(***************************************************************************)
\* the notable records of one chain output, in line order
NotableOf(body) ==
    SelectSeq(body, LAMBDA line :
        /\ line.marker
        /\ line.topic = "logger"
        /\ line.text # InfoMarker
        /\ ~is_iteration_or_elapsed_time_logger_message(line))

RECURSIVE Encountered(_)
\* the notable records of the outputs of chains 1..n, in chain order
Encountered(n) ==
    IF n = 0 THEN <<>> ELSE Encountered(n - 1) \o NotableOf(served[n])

\* the text a record is shown with: its severity markers turned into two spaces
ShownAs(record) == ConsoleLine(DisplayText(record.text))

\* the text a record is shown with has something else than spaces in it
HasText(record) ==
    \E i \in 1..Len(DisplayText(record.text)) : DisplayText(record.text)[i] # " "

\* what the console holds after a call in which the records msgs were shown
ConsoleWith(msgs, shown) ==
    <<SamplingLine, ConsoleBar("clear")>>
    \o (IF msgs # <<>> THEN <<MessagesLine>> ELSE <<>>)
    \o [k \in 1..Len(shown) |-> ShownAs(shown[k])]
    \o <<ConsoleBar("display"), ConsoleBar("finish"), DoneLine>>

\* the progress bar is cleared only at the end of a call whose polling and
\* retrieval are over
DisplayAfterRetrieval ==
    (\E k \in 1..Len(console) : console[k] = ConsoleBar("clear")) =>
        /\ pc = "done"
        /\ EveryOperationDone
        /\ Len(stan_outputs) = num_chains
        /\ Uncacheable => Len(deleted) = num_chains

\* C18 as stated: a call that succeeds has collected the notable records in
\* chain order then line order, and between the clearing of the progress bar
\* and its redisplay and finish it has shown every one of them once, in that
\* order; nothing is shown before polling and retrieval are over.
C18_EveryMessageDisplayed ==
    /\ DisplayAfterRetrieval
    /\ Succeeded =>
         /\ nonstandard_logger_messages = Encountered(num_chains)
         /\ console = ConsoleWith(nonstandard_logger_messages,
                                  nonstandard_logger_messages)

\* C18 amended: as above, but the records shown are the collected ones whose
\* text, once the severity markers are taken out, is not blank; the others are
\* collected and not shown.
C18_NonBlankMessagesDisplayed ==
    /\ DisplayAfterRetrieval
    /\ Succeeded =>
         /\ nonstandard_logger_messages = Encountered(num_chains)
         /\ console = ConsoleWith(nonstandard_logger_messages,
                                  SelectSeq(nonstandard_logger_messages, HasText))

\* C18 happens: a call with two chains has succeeded, the two outputs held
\* different notable records, one of them blank, and the console shows fewer
\* lines than records.
C18_Witness ==
    /\ Succeeded
    /\ num_chains = 2
    /\ NotableOf(served[1]) # <<>>
    /\ NotableOf(served[2]) # <<>>
    /\ NotableOf(served[1]) # NotableOf(served[2])
    /\ \E k \in 1..Len(nonstandard_logger_messages) :
         ~HasText(nonstandard_logger_messages[k])
    /\ Len(console) < Len(nonstandard_logger_messages) + 6

(***************************************************************************)
(* Properties of the resolved quantities, on SpecOptions.                  *)
(***************************************************************************)
\* C19: whatever the chain count, the construction of the Fit finds the four
\* quantities defined, and the Fit of a call that succeeds holds, for each of
\* them, the value of the caller when the option was passed and the default of
\* the sampling method otherwise.
C19_ResolvedForEveryChainCount ==
    /\ outcome # "NameError"
    /\ Succeeded =>
         \A key \in SamplingOptions :
             fit[1][key] = IF key \in kwargs THEN <<"caller", key>>
                           ELSE <<"default", key>>

(***************************************************************************)
(* Termination, on SpecLive.                                               *)
(***************************************************************************)
\* C16: with a service that answers every request and eventually reports every
\* operation done, the call ends, whether or not any progress message is sent.
C16_CallTerminates == <>(pc = "done")

\* C16 happens: a call with two chains that were polled has returned a Fit and
\* no operation ever carried a progress message.
C16_Witness ==
    /\ Succeeded
    /\ num_chains = 2
    /\ polled = {1, 2}
    /\ firstMax = -1

(***************************************************************************)
(* Properties of the caller's init list, on SpecTwice.                     *)
(***************************************************************************)
\* C21: the request of chain k carries the k-th mapping of the list the caller
\* passed; when the call has ended the list is as the caller passed it; and a
\* second call with the same list and chain count is not refused for its init
\* count when the first was not.
C21_InitLeftUnchanged ==
    init_given =>
        /\ calls = 1 => \A k \in 1..Len(posts) : posts[k].init = initArg[k]
        /\ pc = "done" => init = initArg
        /\ (calls = 2 /\ Len(initArg) = num_chains) => errMsg.src # "init"

====
